---------------------------- MODULE Spec2Model ----------------------------
(***************************************************************************)
(* A model of the alert registry of src/main.py: the AlertCreate           *)
(* validation contract, the route table, and the handlers create_alert,    *)
(* read_alert, delete_alert, read_alerts and get_nearby_alerts running     *)
(* against the alerts table.                                               *)
(*                                                                         *)
(* Representation.                                                         *)
(*  - Text fields are TLA+ strings; Len counts characters as max_length    *)
(*    does.  Path segments are sequences of one-character strings so that  *)
(*    the integer conversion of a path parameter is a real parse.          *)
(*  - Coordinates are integers in thousandths of a degree and radii are    *)
(*    integers in metres (thousandths of a km).  With these units          *)
(*    x <= c + radius_km / 111.0 is 111 * (x - c) <= radius, exactly.      *)
(*    For a radius in (0, 100] km no grid point lies within a rounding     *)
(*    error of a box edge, so the comparison agrees with the one the       *)
(*    storage engine makes on double precision values.                     *)
(*  - The storage engine is the server the engine configuration of lines   *)
(*    20-32 and the column default of line 47 are written for: it enforces *)
(*    VARCHAR lengths, rejects a negative LIMIT or OFFSET, and returns     *)
(*    rows that tie on the ORDER BY key in an order it does not promise.   *)
(***************************************************************************)
EXTENDS Integers, Sequences, FiniteSets, TLC

VARIABLES
    db,      \* the rows of table "alerts"
    nextId,  \* the next value of the primary key sequence
    now,     \* the storage engine's clock, read by the timestamp default
    resp,    \* the request last answered, with its response
    del,     \* per in-flight DELETE request: where delete_alert stands
    issued   \* history: what create_alert returned for rows not deleted since

vars == <<db, nextId, now, resp, del, issued>>

---------------------------------------------------------------------------
(* Bounds of the model *)

MaxId == 2
MaxTicks == 1
NumWorkers == 2
MaxNew == 2

(* Program constants *)

TitleMax == 255
DescriptionMax == 1000
CategoryMax == 100
BairroColumnMax == 100
LatMax == 90
LonMax == 180
LimitCeiling == 1000
NearbyLimit == 100
RadiusMaxKm == 100
KmPerDegree == 111

---------------------------------------------------------------------------
(* Helpers *)

RECURSIVE Rep(_, _)
Rep(c, n) ==
    IF n = 0 THEN ""
    ELSE LET h == Rep(c, n \div 2)
         IN  IF n % 2 = 0 THEN h \o h ELSE h \o h \o c

Min(S) == CHOOSE x \in S : \A y \in S : x <= y

Max(S) == CHOOSE x \in S : \A y \in S : x >= y

Ids(rows) == {r.id : r \in rows}

RowOf(rows, id) == CHOOSE r \in rows : r.id = id

---------------------------------------------------------------------------
(* AlertCreate: the validation contract *)

TitleOk(title) == Len(title) >= 1 /\ Len(title) <= TitleMax

DescriptionOk(description) == Len(description) <= DescriptionMax

CategoryOk(category) == Len(category) <= CategoryMax

(* LatitudeOk with longitude's range in place of latitude's *)
LatitudeOkSlip(latitude) == latitude >= -LonMax * 1000 /\ latitude <= LonMax * 1000

LatitudeOk(latitude) == latitude >= -LatMax * 1000 /\ latitude <= LatMax * 1000

LongitudeOk(longitude) == longitude >= -LonMax * 1000 /\ longitude <= LonMax * 1000

ValidAlertCreate(a) ==
    /\ TitleOk(a.title)
    /\ DescriptionOk(a.description)
    /\ CategoryOk(a.category)
    /\ LatitudeOk(a.latitude)
    /\ LongitudeOk(a.longitude)

(* AlertDB: what the table's column types accept *)

ColumnsFit(a) ==
    /\ Len(a.title) <= TitleMax
    /\ Len(a.description) <= DescriptionMax
    /\ Len(a.category) <= CategoryMax
    /\ Len(a.bairro) <= BairroColumnMax

(* The row built from the input's dumped fields, once flushed: the input's *)
(* fields, the primary key and the timestamp default.                      *)
NewRow(a, id, ts) ==
    [id |-> id, title |-> a.title, description |-> a.description,
     category |-> a.category, latitude |-> a.latitude,
     longitude |-> a.longitude, timestamp |-> ts, bairro |-> a.bairro]

InputOf(r) ==
    [title |-> r.title, description |-> r.description, category |-> r.category,
     latitude |-> r.latitude, longitude |-> r.longitude, bairro |-> r.bairro]

---------------------------------------------------------------------------
(* The route table, in registration order, and first-match dispatch *)

Lit(s) == [kind |-> "lit", v |-> s]

Param == [kind |-> "param", v |-> <<>>]

SegAlerts == <<"a", "l", "e", "r", "t", "s">>

SegNearby == <<"n", "e", "a", "r", "b", "y">>

SegHealth == <<"h", "e", "a", "l", "t", "h">>

Routes ==
    << [method |-> "GET", path |-> <<>>, endpoint |-> "read_root"],
       [method |-> "GET", path |-> <<Lit(SegHealth)>>, endpoint |-> "health_check"],
       [method |-> "GET", path |-> <<Lit(SegAlerts)>>, endpoint |-> "read_alerts"],
       [method |-> "GET", path |-> <<Lit(SegAlerts), Param>>, endpoint |-> "read_alert"],
       [method |-> "POST", path |-> <<Lit(SegAlerts)>>, endpoint |-> "create_alert"],
       [method |-> "DELETE", path |-> <<Lit(SegAlerts), Param>>, endpoint |-> "delete_alert"],
       [method |-> "GET", path |-> <<Lit(SegAlerts), Lit(SegNearby)>>,
        endpoint |-> "get_nearby_alerts"] >>

SegMatches(p, seg) ==
    IF p.kind = "lit" THEN seg = p.v ELSE Len(seg) > 0

PathMatches(pattern, path) ==
    /\ Len(pattern) = Len(path)
    /\ \A i \in 1..Len(path) : SegMatches(pattern[i], path[i])

Dispatch(method, path) ==
    LET byPath == {i \in 1..Len(Routes) : PathMatches(Routes[i].path, path)}
        full == {i \in byPath : Routes[i].method = method}
    IN  IF full # {} THEN Routes[Min(full)].endpoint
        ELSE IF byPath # {} THEN "method_not_allowed"
        ELSE "not_found"

(* The conversion of a path parameter declared int *)

DigitVal ==
    [c \in {"0", "1", "2", "3", "4", "5", "6", "7", "8", "9"} |->
        CASE c = "0" -> 0 [] c = "1" -> 1 [] c = "2" -> 2 [] c = "3" -> 3
          [] c = "4" -> 4 [] c = "5" -> 5 [] c = "6" -> 6 [] c = "7" -> 7
          [] c = "8" -> 8 [] c = "9" -> 9]

IsDigits(s) == Len(s) > 0 /\ \A i \in 1..Len(s) : s[i] \in DOMAIN DigitVal

RECURSIVE DigitsValue(_)
DigitsValue(s) ==
    IF Len(s) = 0 THEN 0
    ELSE 10 * DigitsValue(SubSeq(s, 1, Len(s) - 1)) + DigitVal[s[Len(s)]]

ParseInt(s) ==
    IF IsDigits(s) THEN [ok |-> TRUE, val |-> DigitsValue(s)]
    ELSE IF Len(s) > 1 /\ s[1] = "-" /\ IsDigits(Tail(s))
         THEN [ok |-> TRUE, val |-> 0 - DigitsValue(Tail(s))]
    ELSE [ok |-> FALSE, val |-> 0]

DigitChar(d) == CHOOSE c \in DOMAIN DigitVal : DigitVal[c] = d

RECURSIVE Dec(_)
Dec(n) == IF n < 10 THEN <<DigitChar(n)>> ELSE Append(Dec(n \div 10), DigitChar(n % 10))


---------------------------------------------------------------------------
(* Requests and responses.  A request carries the method, the path, the    *)
(* JSON body of a POST and the query parameters; a response names the      *)
(* handler that answered, the HTTP status and the rows returned.           *)

NoInput ==
    [title |-> "", description |-> "", category |-> "", latitude |-> 0,
     longitude |-> 0, bairro |-> ""]

NoCategory == [given |-> FALSE, v |-> ""]

Category(c) == [given |-> TRUE, v |-> c]

NoReq ==
    [method |-> "", path |-> <<>>, body |-> NoInput, skip |-> 0, limit |-> 0,
     category |-> NoCategory, latitude |-> 0, longitude |-> 0, radius |-> 0]

Answer(req, op, status, body) ==
    [req |-> req, op |-> op, status |-> status, body |-> body]

IdleSlot == [pc |-> "idle", id |-> 0, status |-> 0, req |-> NoReq]

---------------------------------------------------------------------------
(* The storage engine's answer to ORDER BY timestamp DESC: every order of  *)
(* the rows in which timestamps do not increase.  Rows with equal          *)
(* timestamps may come in any order.                                       *)

RECURSIVE PermSeqs(_)
PermSeqs(S) ==
    IF S = {} THEN {<<>>}
    ELSE UNION {{<<x>> \o p : p \in PermSeqs(S \ {x})} : x \in S}

RECURSIVE OrdersBetween(_, _, _)
OrdersBetween(S, lo, hi) ==
    IF S = {} THEN {<<>>}
    ELSE IF lo = hi THEN PermSeqs(S)
    ELSE LET mid == (lo + hi) \div 2
             newer == {r \in S : r.timestamp > mid}
         IN  {p \o q : p \in OrdersBetween(newer, mid + 1, hi),
                       q \in OrdersBetween(S \ newer, lo, mid)}

Orders(S) ==
    IF S = {} THEN {<<>>}
    ELSE LET T == {r.timestamp : r \in S}
         IN  OrdersBetween(S, Min(T), Max(T))

(* OFFSET skip LIMIT limit, both non-negative *)
Page(s, skip, limit) ==
    IF skip >= Len(s) \/ limit = 0 THEN <<>>
    ELSE SubSeq(s, skip + 1, Min({Len(s), skip + limit}))

---------------------------------------------------------------------------
(* create_alert: the body is validated as an AlertCreate before the        *)
(* handler runs; the handler inserts, commits and refreshes.               *)

create_alert(req) ==
    LET a == req.body
    IN  /\ UNCHANGED <<now, del>>
        /\ IF ~ValidAlertCreate(a)
           THEN /\ resp' = Answer(req, "create_alert", 422, <<>>)
                /\ UNCHANGED <<db, nextId, issued>>
           ELSE IF ~ColumnsFit(a)
           THEN /\ resp' = Answer(req, "create_alert", 500, <<>>)
                /\ UNCHANGED <<db, nextId, issued>>
           ELSE LET row == NewRow(a, nextId, now)
                IN  /\ db' = db \cup {row}
                    /\ nextId' = nextId + 1
                    /\ resp' = Answer(req, "create_alert", 201, <<row>>)
                    /\ issued' = issued \cup {[row |-> row, input |-> a]}

(* read_alert without its check for a missing row: the empty result fails *)
(* the response model                                                      *)
read_alert_unchecked(req) ==
    LET p == ParseInt(req.path[2])
    IN  /\ UNCHANGED <<db, nextId, now, del, issued>>
        /\ resp' = IF ~p.ok THEN Answer(req, "read_alert", 422, <<>>)
                   ELSE IF p.val \notin Ids(db) THEN Answer(req, "read_alert", 500, <<>>)
                   ELSE Answer(req, "read_alert", 200, <<RowOf(db, p.val)>>)

(* read_alert: alert_id is the second path segment, converted to int *)

read_alert(req) ==
    LET p == ParseInt(req.path[2])
    IN  /\ UNCHANGED <<db, nextId, now, del, issued>>
        /\ resp' = IF ~p.ok THEN Answer(req, "read_alert", 422, <<>>)
                   ELSE IF p.val \notin Ids(db) THEN Answer(req, "read_alert", 404, <<>>)
                   ELSE Answer(req, "read_alert", 200, <<RowOf(db, p.val)>>)

(* delete_alert: the lookup, then the delete and commit.  When the row is  *)
(* gone by the time of the DELETE statement, no row is matched: the ORM    *)
(* either only warns and the handler confirms, or raises and the handler   *)
(* answers 500.                                                            *)

DeleteMissOutcomes == {200, 500}

delete_alert_lookup(w, req) ==
    LET p == ParseInt(req.path[2])
    IN  /\ del[w].pc # "found"
        /\ UNCHANGED <<db, nextId, now, issued>>
        /\ IF ~p.ok
           THEN /\ resp' = Answer(req, "delete_alert", 422, <<>>)
                /\ del' = [del EXCEPT ![w] = IdleSlot]
           ELSE IF p.val \notin Ids(db)
           THEN /\ resp' = Answer(req, "delete_alert", 404, <<>>)
                /\ del' = [del EXCEPT ![w] =
                              [pc |-> "done", id |-> p.val, status |-> 404, req |-> req]]
           ELSE /\ resp' = resp
                /\ del' = [del EXCEPT ![w] =
                              [pc |-> "found", id |-> p.val, status |-> 0, req |-> req]]

delete_alert_commit(w) ==
    LET id == del[w].id
        req == del[w].req
    IN  /\ del[w].pc = "found"
        /\ UNCHANGED <<nextId, now>>
        /\ IF id \in Ids(db)
           THEN /\ db' = {r \in db : r.id # id}
                /\ issued' = {c \in issued : c.row.id # id}
                /\ resp' = Answer(req, "delete_alert", 200, <<>>)
                /\ del' = [del EXCEPT ![w] = [@ EXCEPT !.pc = "done", !.status = 200]]
           ELSE \E s \in DeleteMissOutcomes :
                /\ UNCHANGED <<db, issued>>
                /\ resp' = Answer(req, "delete_alert", s, <<>>)
                /\ del' = [del EXCEPT ![w] = [@ EXCEPT !.pc = "done", !.status = s]]

---------------------------------------------------------------------------
(* read_alerts *)

EffectiveLimit(limit) == Min({limit, LimitCeiling})

CategoryFilterApplies(category) == category.given /\ category.v # ""

Listed(rows, category) ==
    IF CategoryFilterApplies(category)
    THEN {r \in rows : r.category = category.v}
    ELSE rows

read_alerts(req) ==
    LET lim == EffectiveLimit(req.limit)
    IN  /\ UNCHANGED <<db, nextId, now, del, issued>>
        /\ IF req.skip < 0 \/ lim < 0
           THEN resp' = Answer(req, "read_alerts", 500, <<>>)
           ELSE \E s \in Orders(Listed(db, req.category)) :
                    resp' = Answer(req, "read_alerts", 200, Page(s, req.skip, lim))

---------------------------------------------------------------------------
(* get_nearby_alerts *)

RadiusOk(radius) == radius > 0 /\ radius <= RadiusMaxKm * 1000

(* Scaled with a digit of the constant dropped *)
ScaledSlip(x) == (KmPerDegree \div 10) * x

(* Coordinates and box edges, all multiplied by KmPerDegree:               *)
(* c - radius_km / 111.0 <= x  is  Scaled(c) - radius <= Scaled(x).        *)
Scaled(x) == KmPerDegree * x

Between(x, lo, hi) == lo <= x /\ x <= hi

(* InBox with the longitude window centred on the latitude *)
InBoxSlip(r, latitude, longitude, radius) ==
    /\ Between(KmPerDegree * r.latitude, KmPerDegree * latitude - radius,
               KmPerDegree * latitude + radius)
    /\ Between(KmPerDegree * r.longitude, KmPerDegree * latitude - radius,
               KmPerDegree * latitude + radius)

InBox(r, latitude, longitude, radius) ==
    /\ Between(Scaled(r.latitude), Scaled(latitude) - radius, Scaled(latitude) + radius)
    /\ Between(Scaled(r.longitude), Scaled(longitude) - radius, Scaled(longitude) + radius)

get_nearby_alerts(req) ==
    /\ UNCHANGED <<db, nextId, now, del, issued>>
    /\ IF ~(LatitudeOk(req.latitude) /\ LongitudeOk(req.longitude) /\ RadiusOk(req.radius))
       THEN resp' = Answer(req, "get_nearby_alerts", 422, <<>>)
       ELSE \E s \in Orders({r \in db :
                               InBox(r, req.latitude, req.longitude, req.radius)}) :
                resp' = Answer(req, "get_nearby_alerts", 200, Page(s, 0, NearbyLimit))

(* read_root and health_check touch no row *)

read_root(req) ==
    /\ resp' = Answer(req, "read_root", 200, <<>>)
    /\ UNCHANGED <<db, nextId, now, del, issued>>

health_check(req) ==
    /\ resp' = Answer(req, "health_check", 200, <<>>)
    /\ UNCHANGED <<db, nextId, now, del, issued>>

(* The storage engine's clock advances *)

Tick(limit) ==
    /\ now < limit
    /\ now' = now + 1
    /\ UNCHANGED <<db, nextId, resp, del, issued>>

---------------------------------------------------------------------------
(* The transport: a request goes to the first route that matches it *)

Handle(req, w) ==
    LET h == Dispatch(req.method, req.path)
    IN  CASE h = "read_root" -> read_root(req)
          [] h = "health_check" -> health_check(req)
          [] h = "read_alerts" -> read_alerts(req)
          [] h = "read_alert" -> read_alert(req)
          [] h = "create_alert" -> create_alert(req)
          [] h = "delete_alert" -> delete_alert_lookup(w, req)
          [] h = "get_nearby_alerts" -> get_nearby_alerts(req)
          [] OTHER -> /\ resp' = Answer(req, h, IF h = "not_found" THEN 404 ELSE 405, <<>>)
                      /\ UNCHANGED <<db, nextId, now, del, issued>>

Get(path) == [NoReq EXCEPT !.method = "GET", !.path = path]

Post(path, body) == [NoReq EXCEPT !.method = "POST", !.path = path, !.body = body]

Delete(path) == [NoReq EXCEPT !.method = "DELETE", !.path = path]

GetNearby(latitude, longitude, radius) ==
    [Get(<<SegAlerts, SegNearby>>) EXCEPT
        !.latitude = latitude, !.longitude = longitude, !.radius = radius]

GetList(skip, limit, category) ==
    [Get(<<SegAlerts>>) EXCEPT !.skip = skip, !.limit = limit, !.category = category]


---------------------------------------------------------------------------
(* The requests the model sends *)

Base ==
    [title |-> "Enchente", description |-> "agua na pista", category |-> "flood",
     latitude |-> -23550, longitude |-> -46633, bairro |-> "Centro"]

(* every constrained field at the edge of its range *)
Edge ==
    [title |-> Rep("t", TitleMax), description |-> Rep("d", DescriptionMax),
     category |-> Rep("c", CategoryMax), latitude |-> LatMax * 1000,
     longitude |-> -LonMax * 1000, bairro |-> ""]

LongBairro == [Base EXCEPT !.bairro = Rep("b", BairroColumnMax + 1)]

RejectedInputs ==
    { [Base EXCEPT !.title = ""],
      [Base EXCEPT !.title = Rep("t", TitleMax + 1)],
      [Base EXCEPT !.description = Rep("d", DescriptionMax + 1)],
      [Base EXCEPT !.category = Rep("c", CategoryMax + 1)],
      [Base EXCEPT !.latitude = LatMax * 1000 + 1],
      [Base EXCEPT !.latitude = -LatMax * 1000 - 1],
      [Base EXCEPT !.longitude = LonMax * 1000 + 1],
      [Base EXCEPT !.longitude = -LonMax * 1000 - 1],
      [Base EXCEPT !.title = "", !.latitude = 91000, !.longitude = 181000] }

CreateInputs == {Base, Edge, LongBairro} \cup RejectedInputs

IdSegs == {Dec(i) : i \in 1..(MaxId + 1)} \cup {<<"1", "0">>}

NearbyQueries ==
    { GetNearby(-23550, -46633, 5000), GetNearby(0, 0, RadiusMaxKm * 1000),
      GetNearby(91000, 0, 5000) }

OtherRequests ==
    { Get(<<>>), Get(<<SegHealth>>), Post(<<SegAlerts, <<"1">>>>, Base),
      Get(<<SegHealth, <<"1">>>>) }

---------------------------------------------------------------------------
(* The service behind its transport *)

Init ==
    /\ db = {}
    /\ nextId = 1
    /\ now = 0
    /\ resp = Answer(NoReq, "none", 0, <<>>)
    /\ del = [w \in 1..NumWorkers |-> IdleSlot]
    /\ issued = {}

PostAlert(inputs) ==
    \E a \in inputs :
        /\ nextId <= MaxId \/ ~(ValidAlertCreate(a) /\ ColumnsFit(a))
        /\ Handle(Post(<<SegAlerts>>, a), 1)

GetAlert == \E seg \in IdSegs : Handle(Get(<<SegAlerts, seg>>), 1)

GetAlertsNearby == \E q \in NearbyQueries : Handle(q, 1)

DeleteAlert(workers) ==
    \E w \in workers : \E seg \in IdSegs : Handle(Delete(<<SegAlerts, seg>>), w)

DeleteAlertCommit(workers) == \E w \in workers : delete_alert_commit(w)

OtherRequest == \E q \in OtherRequests : Handle(q, 1)

ClockTick == Tick(MaxTicks)

(* Requests answered one at a time.  No handler reached here reads a       *)
(* timestamp, so the clock is left where it starts.                        *)

Next ==
    \/ PostAlert(CreateInputs)
    \/ GetAlert
    \/ GetAlertsNearby
    \/ DeleteAlert({1})
    \/ DeleteAlertCommit({1})
    \/ OtherRequest

Spec == Init /\ [][Next]_vars

(* DELETE requests in flight together, each on its own session *)

NextRace ==
    \/ PostAlert({Base})
    \/ DeleteAlert(1..NumWorkers)
    \/ DeleteAlertCommit(1..NumWorkers)

SpecRace == Init /\ [][NextRace]_vars


---------------------------------------------------------------------------
(* Listing: rows of two categories, created at equal or increasing         *)
(* timestamps, then paged through GET /alerts                              *)

Fire == [Base EXCEPT !.title = "Incendio", !.category = "fire"]

ListSkips == {-1, 0, 1}

ListLimits == {-1, 1, 2, 5 * LimitCeiling}

ListCategories == {NoCategory, Category(""), Category("flood"), Category("fire")}

PostListed ==
    \E a \in {Base, Fire} : nextId <= MaxId + 1 /\ Handle(Post(<<SegAlerts>>, a), 1)

GetAlerts ==
    \E skip \in ListSkips, limit \in ListLimits, category \in ListCategories :
        Handle(GetList(skip, limit, category), 1)

NextList ==
    \/ PostListed
    \/ GetAlerts
    \/ ClockTick

SpecList == Init /\ [][NextList]_vars

---------------------------------------------------------------------------
(* Proximity search, called with its parameters as section 4.3 of the      *)
(* specification states the operation.  The table outlives the process     *)
(* (the lifespan hook only creates it when missing), so the service may    *)
(* start on rows of earlier runs: none, or NearbyLimit alerts at           *)
(* Base's place, created one per clock tick.                               *)

Seed(n) == {NewRow(Base, i, i) : i \in 1..n}

North == [Base EXCEPT !.title = "Norte", !.latitude = Base.latitude + 1000]

NearbyRadii == {0, 1, 5000, RadiusMaxKm * 1000, 120000}

InitNearby ==
    /\ \E n \in {0, NearbyLimit} :
        /\ db = Seed(n)
        /\ nextId = n + 1
    /\ now = NearbyLimit
    /\ resp = Answer(NoReq, "none", 0, <<>>)
    /\ del = [w \in 1..NumWorkers |-> IdleSlot]
    /\ issued = {}

PostNearby ==
    \E a \in {Base, North} :
        Cardinality(issued) < MaxNew /\ Handle(Post(<<SegAlerts>>, a), 1)

NearbyCentres ==
    { <<Base.latitude, Base.longitude>>, <<Base.latitude + 1000, Base.longitude>>,
      <<Base.latitude, Base.longitude + 1000>> }

SearchNearby ==
    \E c \in NearbyCentres : \E radius \in NearbyRadii :
        get_nearby_alerts(GetNearby(c[1], c[2], radius))

NearbyTick == Tick(NearbyLimit + MaxTicks)

NextNearby ==
    \/ PostNearby
    \/ SearchNearby
    \/ NearbyTick

SpecNearby == InitNearby /\ [][NextNearby]_vars


---------------------------------------------------------------------------
(* Properties *)

Range(s) == {s[i] : i \in 1..Len(s)}

(* The field constraints as the specification lists them *)
FieldConstraintsMet(a) ==
    /\ Len(a.title) >= 1 /\ Len(a.title) <= 255
    /\ Len(a.description) <= 1000
    /\ Len(a.category) <= 100
    /\ a.latitude >= -90000 /\ a.latitude <= 90000
    /\ a.longitude >= -180000 /\ a.longitude <= 180000

(* C1: every input that meets the field constraints is created (201, with  *)
(* an id and the input's fields), and reading the id of a row created and  *)
(* not deleted since returns exactly the row that create returned.         *)
C1_CreateThenRead ==
    /\ (resp.op = "create_alert" /\ FieldConstraintsMet(resp.req.body)) =>
          /\ resp.status = 201
          /\ Len(resp.body) = 1
          /\ InputOf(resp.body[1]) = resp.req.body
          /\ resp.body[1].id >= 1
    /\ (resp.op = "read_alert" /\ ParseInt(resp.req.path[2]).ok) =>
          \A c \in issued :
              c.row.id = ParseInt(resp.req.path[2]).val =>
                  /\ resp.status = 200
                  /\ resp.body = <<c.row>>
                  /\ InputOf(c.row) = c.input

(* C2: a create whose latitude or longitude is out of range, or whose      *)
(* title is empty or longer than 255 characters, is answered 422 and       *)
(* leaves the table as it was.                                             *)
C2_Rejected(a) ==
    \/ a.latitude < -90000 \/ a.latitude > 90000
    \/ a.longitude < -180000 \/ a.longitude > 180000
    \/ Len(a.title) = 0 \/ Len(a.title) > 255

C2_InvalidCreateChangesNothing ==
    [][(resp'.op = "create_alert" /\ C2_Rejected(resp'.req.body)) =>
          (resp'.status = 422 /\ db' = db)]_vars

C2_Witness ==
    /\ resp.op = "create_alert"
    /\ resp.status = 422
    /\ resp.req.body.latitude > 90000
    /\ resp.req.body.title = ""
    /\ Cardinality(db) = 2

(* C8: a read or a delete of an id that no row has is answered 404 and     *)
(* leaves the table as it was.                                             *)
C8_MissingIdNotFound ==
    [][ /\ ( /\ resp' # resp
             /\ resp'.op = "read_alert"
             /\ ParseInt(resp'.req.path[2]).ok
             /\ ParseInt(resp'.req.path[2]).val \notin Ids(db) ) =>
                (resp'.status = 404 /\ db' = db)
        /\ \A w \in 1..NumWorkers :
             ( /\ del'[w] # del[w]
               /\ del[w].pc # "found"
               /\ del'[w].req.method = "DELETE"
               /\ del'[w].id \notin Ids(db) ) =>
                  /\ del'[w].pc = "done"
                  /\ del'[w].status = 404
                  /\ resp'.op = "delete_alert"
                  /\ resp'.status = 404
                  /\ db' = db ]_vars

C8_Witness ==
    /\ resp.op = "read_alert"
    /\ resp.status = 404
    /\ db # {}
    /\ del[1].pc = "done"
    /\ del[1].status = 404
    /\ del[1].id \notin Ids(db)

(* C10: a GET of /alerts/nearby with valid latitude, longitude and         *)
(* radius_km is answered by get_nearby_alerts with a proximity result.     *)
C10_NearbyReachesProximitySearch ==
    ( /\ resp.req.method = "GET"
      /\ resp.req.path = <<SegAlerts, SegNearby>>
      /\ resp.req.latitude >= -90000 /\ resp.req.latitude <= 90000
      /\ resp.req.longitude >= -180000 /\ resp.req.longitude <= 180000
      /\ resp.req.radius > 0 /\ resp.req.radius <= 100000 ) =>
        (resp.op = "get_nearby_alerts" /\ resp.status = 200)

(* C9: of the DELETE requests that have finished for one id, at most one   *)
(* was confirmed, the others were answered 404, none 500, and the row is   *)
(* gone.                                                                   *)
C9_OneDeleteWins ==
    \A w \in 1..NumWorkers :
        del[w].pc = "done" =>
            /\ del[w].status \in {200, 404}
            /\ del[w].status = 200 => del[w].id \notin Ids(db)
            /\ \A v \in 1..NumWorkers :
                 (v # w /\ del[v].pc = "done" /\ del[v].id = del[w].id) =>
                     ~(del[v].status = 200 /\ del[w].status = 200)


(* C3: whatever category string a list request carries, every row it       *)
(* returns has exactly that category.                                      *)
C3_OnlyRequestedCategory ==
    (resp.op = "read_alerts" /\ resp.req.category.given) =>
        \A i \in 1..Len(resp.body) : resp.body[i].category = resp.req.category.v

(* C4: a list request never fails, whatever integers skip and limit are,   *)
(* and returns at most min(limit, 1000) rows.                              *)
C4_ListNeverFails ==
    resp.op = "read_alerts" =>
        /\ resp.status = 200
        /\ Len(resp.body) <= Min({resp.req.limit, 1000})

(* C5: a list comes back newest first, and rows with equal timestamps in   *)
(* the order of their ids.                                                 *)
C5_NewestFirstTiesById ==
    (resp.op = "read_alerts" /\ resp.status = 200) =>
        \A i, j \in 1..Len(resp.body) :
            i < j =>
                \/ resp.body[i].timestamp > resp.body[j].timestamp
                \/ /\ resp.body[i].timestamp = resp.body[j].timestamp
                   /\ resp.body[i].id < resp.body[j].id

(* The search box as the specification states it, in the model's units:    *)
(* |x - c| <= radius_km / 111 on both axes.                                *)
C_InsideBox(r, q) ==
    /\ 111 * (r.latitude - q.latitude) <= q.radius
    /\ 111 * (q.latitude - r.latitude) <= q.radius
    /\ 111 * (r.longitude - q.longitude) <= q.radius
    /\ 111 * (q.longitude - r.longitude) <= q.radius

C_AtCentre(r, q) == r.latitude = q.latitude /\ r.longitude = q.longitude

(* C6: a search centred exactly on a row returns that row, whatever other  *)
(* rows the table holds.                                                   *)
C6_CentreAlwaysReturned ==
    (resp.op = "get_nearby_alerts" /\ resp.status = 200) =>
        \A r \in db : C_AtCentre(r, resp.req) => r \in Range(resp.body)

(* C6, amended: a search centred exactly on a row returns that row when    *)
(* fewer than 100 other rows inside the box have a timestamp at least as   *)
(* recent; in particular when the box holds at most 100 rows.              *)
C6_CentreReturnedWithinCap ==
    (resp.op = "get_nearby_alerts" /\ resp.status = 200) =>
        \A r \in db :
            ( /\ C_AtCentre(r, resp.req)
              /\ Cardinality({q \in db : /\ q # r
                                         /\ C_InsideBox(q, resp.req)
                                         /\ q.timestamp >= r.timestamp}) < 100 ) =>
                r \in Range(resp.body)

C6_Witness ==
    /\ resp.op = "get_nearby_alerts"
    /\ resp.status = 200
    /\ Cardinality({q \in db : C_InsideBox(q, resp.req)}) > 100
    /\ \E q \in db : ~C_InsideBox(q, resp.req)
    /\ \E r \in Range(resp.body) : C_AtCentre(r, resp.req)

(* C7: every row a search returns lies inside the box, so a row one degree *)
(* north of the centre is never returned.                                  *)
C7_ResultsInsideBox ==
    (resp.op = "get_nearby_alerts" /\ resp.status = 200) =>
        \A i \in 1..Len(resp.body) :
            /\ C_InsideBox(resp.body[i], resp.req)
            /\ ~( /\ resp.body[i].latitude = resp.req.latitude + 1000
                  /\ resp.body[i].longitude = resp.req.longitude )

C7_Witness ==
    /\ resp.op = "get_nearby_alerts"
    /\ resp.status = 200
    /\ resp.req.radius = 100000
    /\ Len(resp.body) > 0
    /\ \E r \in db : /\ r.latitude = resp.req.latitude + 1000
                     /\ r.longitude = resp.req.longitude

============================================================================
